---- MODULE Spec2Model ----
(***************************************************************************)
(* Job orchestration of the melody transcription service.                  *)
(*                                                                         *)
(* The persisted state is the jobs table and the artifacts table           *)
(* (app/db/repository.py), the broker queue of transcribe_job messages     *)
(* and the workers' revoked set (Celery).  The processes are the Celery    *)
(* workers executing transcribe_job (app/tasks/celery_tasks.py) and the    *)
(* UI sessions calling submit_transcription_job, cancel_job,               *)
(* retry_failed_job (app/tasks/utils.py) and the parameter form of         *)
(* pages/02_Settings.py.  Every repository call is one transaction, so one *)
(* step of the model is one repository or broker call together with the    *)
(* process-local computation that precedes it.  The store itself is        *)
(* assumed available (no SQLAlchemyError); the broker may refuse a         *)
(* publish.  Log rows (add_log) are not modelled.                          *)
(*                                                                         *)
(* Spec is the orchestration: workers and UI sessions interleaved at the   *)
(* granularity of the writes to the store; FairSpec is Spec with fair      *)
(* workers.  RunSpec follows one execution of transcribe_job statement by  *)
(* statement, with its local variables.  QuantSpec, RestSpec and TempoSpec *)
(* apply the functions of app/audio/quantize.py, F0Spec f0_to_midi of      *)
(* app/audio/notation.py and SynthSpec synth_sine of                       *)
(* app/audio/synthesis.py, to every argument within the bounds.            *)
(***************************************************************************)
EXTENDS Integers, Sequences, FiniteSets, TLC

\* ------------------------------------------------------------------ bounds

\* How many transcribe_job messages the broker accepts in one behaviour
\* (the first submit plus the retries).
MaxTasks == 3

\* The worker pool, in the order in which a free worker is handed a message.
WorkerPool == <<"w1", "w2">>
Workers == { WorkerPool[i] : i \in DOMAIN WorkerPool }

\* The UI pages open at the same time, one session each: 01_Upload submits,
\* 02_Settings cancels, retries and edits parameters, 05_History retries.
UploadPages == {"upload"}
SettingsPages == {"settings"}
HistoryPages == {"history"}
Sessions == UploadPages \cup SettingsPages \cup HistoryPages

\* The processing-parameter records: the one the upload form sends and the
\* ones the parameter form can save.
SubmittedParams == {"p1"}
ParamSets == {"p1", "p2"}

\* ------------------------------------------------------------------ values

None == "None"

\* Job.id of the one job followed here (autoincrement primary key).
JobId == 1

\* Upload.path of the job's upload.
UploadPath == "upload.path"

\* Celery names a task by a uuid string; revoke is handed Job.id, an integer.
\* The two are tagged so that they compare as different values.
TaskUuid(n) == <<"uuid", n>>
IntId(i) == <<"int", i>>

NoTask == [id |-> <<>>, job_id |-> 0, audio_path |-> None, params |-> None]

\* Job.error is NULL.
NoError == <<>>

\* What get_job returns for an id that has no row.
NoRow == [status |-> None, progress |-> 0, error |-> NoError, params_json |-> None]

\* Column defaults of a new Job row.
NewJob(params) ==
    [status |-> "queued", progress |-> 0, error |-> NoError, params_json |-> params]

\* The error texts the code writes, without the traceback.
CancelledByUser == <<"Job cancelled by user">>
TranscriptionFailed == <<"Transcription failed">>
TaskFailed == <<"Task failed">>

VARIABLES
    jobs,       \* jobs table: Job.id -> row
    artifacts,  \* artifacts table in insertion order
    queue,      \* transcribe_job messages published and not yet taken
    nextTask,   \* number of messages published so far
    wpc,        \* worker -> position in transcribe_job
    wtask,      \* worker -> the message it executes
    upc,        \* session -> position in its current call
    uparams,    \* session -> params read (retry) or edited (form)
    cancelSeen, \* history: worker -> a cancel_job returned True during its run
    run,        \* one execution of transcribe_job followed statement by statement
    qz,         \* one call into quantize.py: its arguments and what it returns
    te,         \* one call of estimate_tempo: the backend's answer and what it returns
    nt          \* one call into notation.py or synthesis.py

vars == <<jobs, artifacts, queue, nextTask, wpc, wtask,
          upc, uparams, cancelSeen, run, qz, te, nt>>

\* The variables of the single-call specifications below; the orchestration
\* steps leave them alone.
localVars == <<run, qz, te, nt>>

\* No call is being followed.
NoCall == [pc |-> "none"]

\* ------------------------------------------------------------------ repository

get_job(job_id) == IF job_id \in DOMAIN jobs THEN jobs[job_id] ELSE NoRow

\* UPDATE jobs SET fields WHERE id = job_id: unconditional on the row's status.
update_job_status(job_id, fields) ==
    IF job_id \in DOMAIN jobs
    THEN [jobs EXCEPT ![job_id] = fields @@ @]
    ELSE jobs

create_job(params) == (JobId :> NewJob(params))

\* INSERT of a new Artifact row; `by` records the task that wrote it.
add_artifact(rows, job_id, kind, by) ==
    Append(rows, [job_id |-> job_id, kind |-> kind, by |-> by])

get_artifacts_by_job(job_id) ==
    SelectSeq(artifacts, LAMBDA a : a.job_id = job_id)

\* .filter(job_id, kind).first() has no ORDER BY: any matching row may be the
\* one returned.  The set of rows the call can return (empty: it returns None).
get_artifact_by_kind(job_id, kind) ==
    { artifacts[i] : i \in { j \in DOMAIN artifacts :
                                artifacts[j].job_id = job_id /\ artifacts[j].kind = kind } }

\* ------------------------------------------------------------------ broker

\* control.revoke(task_id): the workers discard a message whose id is task_id.
revoke(messages, task_id) == { t \in messages : t.id # task_id }

\* terminate=True: the worker process executing the task task_id is killed,
\* and nothing more of that run executes.
terminate(pcs, tasks, task_id) ==
    [w \in DOMAIN pcs |-> IF tasks[w].id = task_id THEN "idle" ELSE pcs[w]]

\* The pool hands a message to its first free worker.
FirstFree(w) ==
    \E i \in DOMAIN WorkerPool :
        /\ WorkerPool[i] = w
        /\ wpc[w] = "idle"
        /\ \A j \in 1..(i - 1) : wpc[WorkerPool[j]] # "idle"

\* apply_async: the message published for a job.
Message(n, job_id, audio_path, params) ==
    [id |-> TaskUuid(n), job_id |-> job_id, audio_path |-> audio_path,
     params |-> params]

\* ------------------------------------------------------------------ rendering

\* What one renderer command does when asked for the pdf, then the png.
CmdOutcomes == {"ok", "pdf_fails", "png_fails"}

Renderers == {"mscore", "verovio", "none"}

\* The MuseScore loop over mscore, musescore3, musescore4: a command whose pdf
\* call raises adds nothing, one whose png call raises has already added the
\* pdf, and the first command that completes both ends the loop.
RECURSIVE mscore_loop(_, _)
mscore_loop(res, i) ==
    IF i > Len(res) THEN <<>>
    ELSE IF res[i] = "ok" THEN <<"pdf", "png">>
    ELSE IF res[i] = "png_fails" THEN <<"pdf">> \o mscore_loop(res, i + 1)
    ELSE mscore_loop(res, i + 1)

\* Verovio is tried once, the png first.
verovio_once(r) ==
    IF r = "ok" THEN <<"png", "pdf">>
    ELSE IF r = "pdf_fails" THEN <<"png">>
    ELSE <<>>

\* Mutant of render_to_pdf_png: the output paths are added to the list before
\* the commands run.
render_to_pdf_png_PathsFirst(renderer, res) ==
    IF renderer = "mscore" THEN <<"pdf", "png">>
    ELSE IF renderer = "verovio" THEN <<"png", "pdf">>
    ELSE <<>>

\* render_to_pdf_png: the kinds of the output files it returns.
render_to_pdf_png(renderer, res) ==
    IF renderer = "mscore" THEN mscore_loop(res, 1)
    ELSE IF renderer = "verovio" THEN verovio_once(res[1])
    ELSE <<>>

\* The renderer commands tried by one call (mscore, musescore3, musescore4).
RenderCommands == 3

\* The outputs a call returns within a run of the job: every configured
\* renderer, with the commands of one call all ending the same way (all
\* missing or failing, all working, all failing on the png).
RenderResults ==
    { render_to_pdf_png(r, [i \in 1..RenderCommands |-> o]) :
        r \in Renderers, o \in CmdOutcomes }

\* ------------------------------------------------------------------ initial state

Init ==
    /\ jobs = <<>>
    /\ artifacts = <<>>
    /\ queue = {}
    /\ nextTask = 0
    /\ wpc = [w \in Workers |-> "idle"]
    /\ wtask = [w \in Workers |-> NoTask]
    /\ upc = [s \in Sessions |-> "idle"]
    /\ uparams = [s \in Sessions |-> None]
    /\ cancelSeen = [w \in Workers |-> FALSE]
    /\ run = NoCall
    /\ qz = NoCall
    /\ te = NoCall
    /\ nt = NoCall

workerVars == <<wpc, wtask>>
sessionVars == <<upc, uparams>>
brokerVars == <<queue, nextTask>>

\* ------------------------------------------------------------------ transcribe_job
\* A worker's position names the stage it is about to run; the progress
\* checkpoint written after a stage belongs to that stage's step.  Inserting
\* an artifact row commutes with every step of another process (only readers
\* of the artifacts table see it), so the inserts share a step with the next
\* write to the jobs table.

\* A free worker receives a message and enters the try block:
\* update_job_status(job_id, status="running", progress=5).
TaskStart(w) ==
    /\ FirstFree(w)
    /\ \E t \in queue :
        /\ queue' = queue \ {t}
        /\ wtask' = [wtask EXCEPT ![w] = t]
        /\ jobs' = update_job_status(t.job_id, [status |-> "running", progress |-> 5])
    /\ wpc' = [wpc EXCEPT ![w] = "load"]
    /\ UNCHANGED <<artifacts, nextTask, sessionVars, cancelSeen>>
    /\ UNCHANGED localVars

\* validate_audio, separation (its own failure is caught and only logged),
\* load_audio_to_mono and apply_preprocessing_pipeline, then
\* update_job_status(progress=25).
Preprocess(w) ==
    /\ wpc[w] = "load"
    /\ jobs' = update_job_status(wtask[w].job_id, [progress |-> 25])
    /\ wpc' = [wpc EXCEPT ![w] = "f0"]
    /\ UNCHANGED <<artifacts, brokerVars, wtask, sessionVars, cancelSeen>>
    /\ UNCHANGED localVars

\* estimate_f0, then update_job_status(progress=45).
EstimateF0(w) ==
    /\ wpc[w] = "f0"
    /\ jobs' = update_job_status(wtask[w].job_id, [progress |-> 45])
    /\ wpc' = [wpc EXCEPT ![w] = "quantize"]
    /\ UNCHANGED <<artifacts, brokerVars, wtask, sessionVars, cancelSeen>>
    /\ UNCHANGED localVars

\* Tempo, quantize_rhythm, f0_to_midi and key detection, then
\* update_job_status(progress=65).
Quantize(w) ==
    /\ wpc[w] = "quantize"
    /\ jobs' = update_job_status(wtask[w].job_id, [progress |-> 65])
    /\ wpc' = [wpc EXCEPT ![w] = "build"]
    /\ UNCHANGED <<artifacts, brokerVars, wtask, sessionVars, cancelSeen>>
    /\ UNCHANGED localVars

\* build_score, export_musicxml, add_artifact(job_id, "musicxml", path), then
\* update_job_status(progress=80).
BuildExport(w) ==
    /\ wpc[w] = "build"
    /\ artifacts' = add_artifact(artifacts, wtask[w].job_id, "musicxml", wtask[w].id)
    /\ jobs' = update_job_status(wtask[w].job_id, [progress |-> 80])
    /\ wpc' = [wpc EXCEPT ![w] = "synth"]
    /\ UNCHANGED <<brokerVars, wtask, sessionVars, cancelSeen>>
    /\ UNCHANGED localVars

\* for output_path in outputs: add_artifact(job_id, kind, output_path).
RECURSIVE register_outputs(_, _, _, _)
register_outputs(rows, job_id, outputs, by) ==
    IF outputs = <<>> THEN rows
    ELSE register_outputs(add_artifact(rows, job_id, Head(outputs), by),
                          job_id, Tail(outputs), by)

\* synth_audio, sf.write, add_artifact(job_id, "audio_preview", path);
\* outputs = render_to_pdf_png(...) and their registration; then
\* update_job_status(job_id, status="done", progress=100, finished_at=...)
\* and the task returns.
SynthRenderFinalize(w) ==
    /\ wpc[w] = "synth"
    /\ \E outputs \in RenderResults :
        artifacts' = register_outputs(
            add_artifact(artifacts, wtask[w].job_id, "audio_preview", wtask[w].id),
            wtask[w].job_id, outputs, wtask[w].id)
    /\ jobs' = update_job_status(wtask[w].job_id, [status |-> "done", progress |-> 100])
    /\ wpc' = [wpc EXCEPT ![w] = "idle"]
    /\ wtask' = [wtask EXCEPT ![w] = NoTask]
    /\ cancelSeen' = [cancelSeen EXCEPT ![w] = FALSE]
    /\ UNCHANGED <<brokerVars, sessionVars>>
    /\ UNCHANGED localVars

\* The stages whose exception reaches the except block of transcribe_job.
FatalStages == {"load", "f0", "quantize", "build", "synth"}

\* Mutant of StageFails: the except block also deletes the rows the failed
\* run had registered.
StageFails_DropsArtifacts(w) ==
    /\ wpc[w] \in FatalStages
    /\ jobs' = update_job_status(wtask[w].job_id,
                   [status |-> "failed", error |-> TranscriptionFailed])
    /\ artifacts' = SelectSeq(artifacts, LAMBDA a : a.by # wtask[w].id)
    /\ wpc' = [wpc EXCEPT ![w] = "on_failure"]
    /\ UNCHANGED <<brokerVars, wtask, sessionVars, cancelSeen>>
    /\ UNCHANGED localVars

\* A stage raises: the except block writes
\* update_job_status(job_id, status="failed", error=error_msg) and re-raises.
StageFails(w) ==
    /\ wpc[w] \in FatalStages
    /\ jobs' = update_job_status(wtask[w].job_id,
                   [status |-> "failed", error |-> TranscriptionFailed])
    /\ wpc' = [wpc EXCEPT ![w] = "on_failure"]
    /\ UNCHANGED <<artifacts, brokerVars, wtask, sessionVars, cancelSeen>>
    /\ UNCHANGED localVars

\* BaseTask.on_failure, called by Celery with the re-raised exception:
\* update_job_status(job_id, status="failed", error=error_msg).
on_failure(w) ==
    /\ wpc[w] = "on_failure"
    /\ jobs' = update_job_status(wtask[w].job_id,
                   [status |-> "failed", error |-> TaskFailed])
    /\ wpc' = [wpc EXCEPT ![w] = "idle"]
    /\ wtask' = [wtask EXCEPT ![w] = NoTask]
    /\ cancelSeen' = [cancelSeen EXCEPT ![w] = FALSE]
    /\ UNCHANGED <<artifacts, brokerVars, sessionVars>>
    /\ UNCHANGED localVars

\* Positions of transcribe_job between the try and the except / return.
Executing(w) == wpc[w] \notin {"idle", "on_failure"}

\* ------------------------------------------------------------------ submit_transcription_job

\* create_job(upload_id, params): the row is committed before the publish.
SubmitCreate(s) ==
    /\ s \in UploadPages
    /\ upc[s] = "idle"
    /\ JobId \notin DOMAIN jobs
    /\ \E params \in SubmittedParams :
        /\ jobs' = create_job(params)
        /\ uparams' = [uparams EXCEPT ![s] = params]
    /\ upc' = [upc EXCEPT ![s] = "submit_publish"]
    /\ UNCHANGED <<artifacts, brokerVars, workerVars, cancelSeen>>
    /\ UNCHANGED localVars

\* transcribe_job.apply_async(args=[job.id, audio_path, params]) succeeds.
SubmitPublish(s) ==
    /\ upc[s] = "submit_publish"
    /\ nextTask < MaxTasks
    /\ nextTask' = nextTask + 1
    /\ queue' = queue \cup {Message(nextTask + 1, JobId, UploadPath, uparams[s])}
    /\ upc' = [upc EXCEPT ![s] = "idle"]
    /\ uparams' = [uparams EXCEPT ![s] = None]
    /\ UNCHANGED <<jobs, artifacts, workerVars, cancelSeen>>
    /\ UNCHANGED localVars

\* apply_async raises after its publish retries (broker unreachable); the
\* except block logs and re-raises, the row stays as created.
SubmitPublishFails(s) ==
    /\ upc[s] = "submit_publish"
    /\ upc' = [upc EXCEPT ![s] = "idle"]
    /\ uparams' = [uparams EXCEPT ![s] = None]
    /\ UNCHANGED <<jobs, artifacts, brokerVars, workerVars, cancelSeen>>
    /\ UNCHANGED localVars

\* ------------------------------------------------------------------ cancel_job

\* job = get_job(job_id) and the two early returns.
CancelRead(s) ==
    /\ s \in SettingsPages
    /\ upc[s] = "idle"
    /\ upc' = [upc EXCEPT ![s] =
                  IF get_job(JobId).status \in {"queued", "running"}
                  THEN "cancel_write" ELSE "idle"]
    /\ UNCHANGED <<jobs, artifacts, brokerVars, workerVars, uparams, cancelSeen>>
    /\ UNCHANGED localVars

\* celery_app.control.revoke(job_id, terminate=True), then
\* update_job_status(job_id, status="cancelled", error="Job cancelled by user");
\* return True.  The id revoked is Job.id, which names no task.
CancelWrite(s) ==
    /\ upc[s] = "cancel_write"
    /\ queue' = revoke(queue, IntId(JobId))
    /\ wpc' = terminate(wpc, wtask, IntId(JobId))
    /\ jobs' = update_job_status(JobId,
                   [status |-> "cancelled", error |-> CancelledByUser])
    /\ upc' = [upc EXCEPT ![s] = "idle"]
    /\ cancelSeen' = [w \in Workers |-> cancelSeen[w] \/ Executing(w)]
    /\ UNCHANGED <<artifacts, nextTask, wtask, uparams>>
    /\ UNCHANGED localVars

\* ------------------------------------------------------------------ retry_failed_job

\* Mutant of RetryRead: the status check also lets a cancelled job through.
RetryRead_AlsoCancelled(s) ==
    /\ s \in SettingsPages \cup HistoryPages
    /\ upc[s] = "idle"
    /\ IF get_job(JobId).status \in {"failed", "cancelled"}
       THEN /\ upc' = [upc EXCEPT ![s] = "retry_reset"]
            /\ uparams' = [uparams EXCEPT ![s] = get_job(JobId).params_json]
       ELSE /\ upc' = [upc EXCEPT ![s] = "retry_false"]
            /\ UNCHANGED uparams
    /\ UNCHANGED <<jobs, artifacts, brokerVars, workerVars, cancelSeen>>
    /\ UNCHANGED localVars

\* job = get_job(job_id), the early returns, params = job.params_json,
\* audio_path = job.upload.path.
RetryRead(s) ==
    /\ s \in SettingsPages \cup HistoryPages
    /\ upc[s] = "idle"
    /\ IF get_job(JobId).status = "failed"
       THEN /\ upc' = [upc EXCEPT ![s] = "retry_reset"]
            /\ uparams' = [uparams EXCEPT ![s] = get_job(JobId).params_json]
       ELSE /\ upc' = [upc EXCEPT ![s] = "retry_false"]
            /\ UNCHANGED uparams
    /\ UNCHANGED <<jobs, artifacts, brokerVars, workerVars, cancelSeen>>
    /\ UNCHANGED localVars

\* Mutant of RetryReset: the reset leaves the previous error in place.
RetryReset_KeepsError(s) ==
    /\ upc[s] = "retry_reset"
    /\ jobs' = update_job_status(JobId, [status |-> "queued", progress |-> 0])
    /\ upc' = [upc EXCEPT ![s] = "retry_publish"]
    /\ UNCHANGED <<artifacts, brokerVars, workerVars, uparams, cancelSeen>>
    /\ UNCHANGED localVars

\* update_job_status(job_id, status="queued", progress=0, error=None).
RetryReset(s) ==
    /\ upc[s] = "retry_reset"
    /\ jobs' = update_job_status(JobId,
                   [status |-> "queued", progress |-> 0, error |-> NoError])
    /\ upc' = [upc EXCEPT ![s] = "retry_publish"]
    /\ UNCHANGED <<artifacts, brokerVars, workerVars, uparams, cancelSeen>>
    /\ UNCHANGED localVars

\* transcribe_job.apply_async(args=[job_id, audio_path, params]); return True.
RetryPublish(s) ==
    /\ upc[s] = "retry_publish"
    /\ nextTask < MaxTasks
    /\ nextTask' = nextTask + 1
    /\ queue' = queue \cup {Message(nextTask + 1, JobId, UploadPath, uparams[s])}
    /\ upc' = [upc EXCEPT ![s] = "idle"]
    /\ uparams' = [uparams EXCEPT ![s] = None]
    /\ UNCHANGED <<jobs, artifacts, workerVars, cancelSeen>>
    /\ UNCHANGED localVars

\* apply_async raises; the except block returns False after the reset.
RetryPublishFails(s) ==
    /\ upc[s] = "retry_publish"
    /\ upc' = [upc EXCEPT ![s] = "retry_false"]
    /\ uparams' = [uparams EXCEPT ![s] = None]
    /\ UNCHANGED <<jobs, artifacts, brokerVars, workerVars, cancelSeen>>
    /\ UNCHANGED localVars

\* ------------------------------------------------------------------ parameter form

\* The Settings page re-reads the job, shows the form while the status it
\* read is queued, and the form is submitted with new parameters.
EditRead(s) ==
    /\ s \in SettingsPages
    /\ upc[s] = "idle"
    /\ get_job(JobId).status = "queued"
    /\ \E params \in ParamSets \ {get_job(JobId).params_json} :
        uparams' = [uparams EXCEPT ![s] = params]
    /\ upc' = [upc EXCEPT ![s] = "edit_write"]
    /\ UNCHANGED <<jobs, artifacts, brokerVars, workerVars, cancelSeen>>
    /\ UNCHANGED localVars

\* update_job_status(job_id, params_json=new_params).
EditWrite(s) ==
    /\ upc[s] = "edit_write"
    /\ jobs' = update_job_status(JobId, [params_json |-> uparams[s]])
    /\ upc' = [upc EXCEPT ![s] = "idle"]
    /\ uparams' = [uparams EXCEPT ![s] = None]
    /\ UNCHANGED <<artifacts, brokerVars, workerVars, cancelSeen>>
    /\ UNCHANGED localVars

\* retry_failed_job has returned False and the page shows its error message.
Returned == {"retry_false"}

\* The page is shown again and the session is free for its next call.
Return(s) ==
    /\ upc[s] \in Returned
    /\ upc' = [upc EXCEPT ![s] = "idle"]
    /\ UNCHANGED <<jobs, artifacts, brokerVars, workerVars, uparams, cancelSeen>>
    /\ UNCHANGED localVars

\* ------------------------------------------------------------------ specification

Next ==
    \/ \E w \in Workers :
        \/ TaskStart(w)
        \/ Preprocess(w)
        \/ EstimateF0(w)
        \/ Quantize(w)
        \/ BuildExport(w)
        \/ SynthRenderFinalize(w)
        \/ StageFails(w)
        \/ on_failure(w)
    \/ \E s \in Sessions :
        \/ SubmitCreate(s)
        \/ SubmitPublish(s)
        \/ SubmitPublishFails(s)
        \/ CancelRead(s)
        \/ CancelWrite(s)
        \/ RetryRead(s)
        \/ RetryReset(s)
        \/ RetryPublish(s)
        \/ RetryPublishFails(s)
        \/ EditRead(s)
        \/ EditWrite(s)
        \/ Return(s)

Spec == Init /\ [][Next]_vars

\* ------------------------------------------------------------------ observations

\* The job's row as get_job_status / get_job_progress report it.
Job == get_job(JobId)
JobExists == JobId \in DOMAIN jobs

\* This step is the reset written by a retry_failed_job call.
RetryResetStep == \E s \in Sessions : upc[s] = "retry_reset" /\ upc'[s] = "retry_publish"

\* The rows of the artifacts table written by one run.
ArtifactsBy(rows, task_id) == SelectSeq(rows, LAMBDA a : a.by = task_id)

IsPrefix(a, b) == Len(a) <= Len(b) /\ SubSeq(b, 1, Len(a)) = a

ArtifactKinds == {"musicxml", "audio_preview", "pdf", "png"}

\* ------------------------------------------------------------------ C1

AllowedTransitions ==
    { <<"queued", "running">>, <<"running", "done">>, <<"running", "failed">>,
      <<"running", "cancelled">>, <<"failed", "queued">> }

\* C1: every change of the persisted status is queued->running,
\* running->done, running->failed, running->cancelled, or failed->queued
\* written by a retry; no other status change is ever written.
C1_OnlyAllowedTransitions ==
    [][ (JobExists /\ Job'.status # Job.status) =>
            /\ <<Job.status, Job'.status>> \in AllowedTransitions
            /\ (Job.status = "failed" => RetryResetStep) ]_vars

\* ------------------------------------------------------------------ C2

\* C2: done and cancelled are absorbing, and failed changes only to queued
\* through a retry: a worker never overwrites a terminal status.
C2_TerminalAbsorbing ==
    [][ JobExists =>
            /\ (Job.status \in {"done", "cancelled"} => Job'.status = Job.status)
            /\ (Job.status = "failed" =>
                    \/ Job'.status = "failed"
                    \/ (Job'.status = "queued" /\ RetryResetStep)) ]_vars

\* ------------------------------------------------------------------ C3

\* C3: once cancel_job has returned True while a run was between two stages,
\* that run executes no further stage (its worker only stops), registers no
\* further artifact, and the status remains cancelled.
C3_CancelStopsRun ==
    [][ \A w \in Workers : cancelSeen[w] =>
            /\ wpc'[w] \in {wpc[w], "idle"}
            /\ ArtifactsBy(artifacts', wtask[w].id) = ArtifactsBy(artifacts, wtask[w].id)
            /\ Job'.status = "cancelled" ]_vars

\* ------------------------------------------------------------------ C4

\* C4: cancellation records no error: while the status is cancelled the
\* error field is empty.
C4_CancelledHasNoError ==
    (JobExists /\ Job.status = "cancelled") => Job.error = NoError

\* ------------------------------------------------------------------ C5

\* C5: while the job is running the persisted progress never decreases from
\* one write to the next.
C5_ProgressMonotonic ==
    [][ (JobExists /\ Job.status = "running" /\ Job'.status = "running") =>
            Job'.progress >= Job.progress ]_vars

\* ------------------------------------------------------------------ C6

\* C6: at most one worker is inside the pipeline of transcribe_job for the
\* job at any time.
C6_SingleExecution ==
    Cardinality({ w \in Workers : Executing(w) /\ wtask[w].job_id = JobId }) <= 1

\* ------------------------------------------------------------------ C7

\* C7: a retry reads the parameters stored in the job's row, its reset leaves
\* the row queued with progress 0 and no error, the message it publishes
\* carries the job, the upload's path and the parameters read, and a run
\* enters the pipeline at its first stage with a published message.
C7_RetryResetsAndReruns ==
    [][ /\ \A s \in Sessions :
            /\ (upc[s] = "idle" /\ upc'[s] = "retry_reset") =>
                    uparams'[s] = Job.params_json
            /\ (upc[s] = "retry_reset" /\ upc'[s] # "retry_reset") =>
                    /\ Job'.status = "queued"
                    /\ Job'.progress = 0
                    /\ Job'.error = NoError
                    /\ Job'.params_json = Job.params_json
                    /\ upc'[s] = "retry_publish"
            /\ (upc[s] = "retry_publish" /\ upc'[s] = "idle") =>
                    /\ Cardinality(queue' \ queue) = 1
                    /\ \A m \in queue' \ queue :
                        /\ m.job_id = JobId
                        /\ m.audio_path = UploadPath
                        /\ m.params = uparams[s]
        /\ \A w \in Workers :
            (wpc[w] = "idle" /\ wpc'[w] # "idle") =>
                /\ wpc'[w] = "load"
                /\ wtask'[w] \in queue ]_vars

\* A retried job: queued again with progress 0 and no error, the retry's
\* message waiting and the first run's notation artifact still registered.
C7_Witness ==
    /\ Job.status = "queued" /\ Job.progress = 0 /\ Job.error = NoError
    /\ nextTask = 2
    /\ \E m \in queue : m.id = TaskUuid(2) /\ m.params = "p2"
    /\ \A s \in Sessions : upc[s] = "idle"
    /\ \A w \in Workers : wpc[w] = "idle"
    /\ Len(artifacts) = 1

\* ------------------------------------------------------------------ C8

\* C8: a retry_failed_job call that finds the job missing or in a status
\* other than failed returns False, publishes nothing and leaves the row
\* (status, progress, error) as it was.
C8_RetryOnlyFromFailed ==
    [][ \A s \in Sessions :
            (upc[s] = "idle" /\ upc'[s] \in {"retry_reset", "retry_publish", "retry_false"}
                /\ Job.status # "failed") =>
                /\ upc'[s] = "retry_false"
                /\ UNCHANGED <<jobs, queue, nextTask>> ]_vars

\* A retry rejected on a running job whose only run has never failed.
C8_Witness ==
    /\ Job.status = "running"
    /\ nextTask = 1
    /\ Executing("w1")
    /\ upc["history"] = "retry_false"

\* ------------------------------------------------------------------ C9

\* C9: no step removes or alters an artifact row (the table only grows at
\* its end), and when a run fails after the notation export its musicxml row
\* is among the rows reported for the job.
C9_ArtifactsKept ==
    [][ /\ IsPrefix(artifacts, artifacts')
        /\ \A w \in Workers :
            (wpc[w] = "synth" /\ wpc'[w] = "on_failure") =>
                \E a \in get_artifact_by_kind(JobId, "musicxml")' : a.by = wtask[w].id ]_vars

\* A job whose first run failed after the notation export and which was then
\* retried: the first run's musicxml row is still registered.
C9_Witness ==
    /\ Job.status = "queued"
    /\ nextTask = 2
    /\ \A w \in Workers : wpc[w] = "idle"
    /\ \E a \in get_artifact_by_kind(JobId, "musicxml") : a.by = TaskUuid(1)

\* ------------------------------------------------------------------ C10

\* The last row of a kind in insertion order: the most recent write.
LastOfKind(kind) ==
    artifacts[CHOOSE i \in DOMAIN artifacts :
        /\ artifacts[i].kind = kind
        /\ \A j \in DOMAIN artifacts : artifacts[j].kind = kind => j <= i]

\* C10: there is at most one artifact row per (job, kind), and the row
\* reported for a kind is the one written last.
C10_OneArtifactPerKind ==
    \A kind \in ArtifactKinds :
        /\ Cardinality({ i \in DOMAIN artifacts :
                artifacts[i].job_id = JobId /\ artifacts[i].kind = kind }) <= 1
        /\ \A a \in get_artifact_by_kind(JobId, kind) : a = LastOfKind(kind)

\* ------------------------------------------------------------------ C15

\* C15: once the job's status has left queued, no step changes the
\* parameters stored in its row (params_json).
C15_ParamsFrozenAfterQueued ==
    [][ (JobExists /\ Job.status # "queued") =>
            Job'.params_json = Job.params_json ]_vars

\* ------------------------------------------------------------------ quantize.py
\* Times, beat positions, grids and durations are integers counting one
\* common binary fraction of a second or of a beat, so that every product and
\* difference below is exact in floating point as well; tempi are multiples
\* of 60 BPM, which makes the seconds-to-beats conversion exact too.

\* Longest array handed to the quantizer, and the largest time in it.
MaxLen == 3
MaxTime == 4

TimeValues == (0 - 1)..MaxTime
Tempos == {0 - 60, 0, 60, 120}
Grids == {0 - 1, 0, 1, 2, 3}
MinDurations == {0 - 1, 0, 1, 2, 3}

\* The arrays of at most MaxLen values.
TimeArrays == UNION { [1..n -> TimeValues] : n \in 0..MaxLen }

\* np.round(n / d) for d > 0: to the nearest integer, a tie to the even one.
np_round(n, d) ==
    LET q == n \div d
        r == n % d
    IN  IF 2 * r < d THEN q
        ELSE IF 2 * r > d THEN q + 1
        ELSE IF q % 2 = 0 THEN q ELSE q + 1

\* np.diff(a)
np_diff(a) == [i \in 1..(Len(a) - 1) |-> a[i + 1] - a[i]]

\* a[mask]: the elements of a at the positions where mask holds.
np_mask(a, mask) ==
    LET idx == SelectSeq([i \in 1..Len(a) |-> i], LAMBDA i : mask[i])
    IN  [k \in 1..Len(idx) |-> a[idx[k]]]

\* beats = times / (60.0 / tempo_bpm); a tempo <= 0 is logged and the times
\* are returned as they are.
times_to_beats(times, tempo_bpm) ==
    IF Len(times) = 0 THEN times
    ELSE IF tempo_bpm <= 0 THEN times
    ELSE [i \in 1..Len(times) |-> (times[i] * tempo_bpm) \div 60]

\* Mutant of quantize_beats: snaps to the grid line after the position.
quantize_beats_NextLine(beat_positions, grid) ==
    IF Len(beat_positions) = 0 THEN beat_positions
    ELSE IF grid <= 0 THEN beat_positions
    ELSE [i \in 1..Len(beat_positions) |-> (beat_positions[i] \div grid) * grid + grid]

\* np.round(beat_positions / grid) * grid; a grid <= 0 is logged and the
\* positions are returned as they are.
quantize_beats(beat_positions, grid) ==
    IF Len(beat_positions) = 0 THEN beat_positions
    ELSE IF grid <= 0 THEN beat_positions
    ELSE [i \in 1..Len(beat_positions) |-> np_round(beat_positions[i], grid) * grid]

\* Mutant of collapse_short_notes: only the events of no length are dropped.
collapse_short_notes_OnlyEmpty(onsets, durations, min_duration) ==
    LET valid_mask == [i \in 1..Len(durations) |-> durations[i] > 0]
    IN  [onsets |-> np_mask(onsets, valid_mask),
         durations |-> np_mask(durations, valid_mask)]

\* valid_mask = durations >= min_duration; the arrays filtered by it (both
\* empty when no event is long enough).
collapse_short_notes(onsets, durations, min_duration) ==
    IF Len(onsets) = 0 THEN [onsets |-> onsets, durations |-> durations]
    ELSE
        LET valid_mask == [i \in 1..Len(durations) |-> durations[i] >= min_duration]
        IN  IF \A i \in 1..Len(durations) : ~valid_mask[i]
            THEN [onsets |-> <<>>, durations |-> <<>>]
            ELSE [onsets |-> np_mask(onsets, valid_mask),
                  durations |-> np_mask(durations, valid_mask)]

\* The events of quantize_rhythm before the short ones are collapsed:
\* convert, snap, durations from the differences with the last one a grid
\* unit.
raw_events(times, tempo_bpm, grid) ==
    LET beats == times_to_beats(times, tempo_bpm)
        quantized_beats == quantize_beats(beats, grid)
        durations == IF Len(quantized_beats) > 1
                     THEN Append(np_diff(quantized_beats), grid)
                     ELSE <<grid>>
    IN  [onsets |-> quantized_beats, durations |-> durations]

\* quantize_rhythm: the raw events, collapsed.  The function has no raise
\* statement and calls nothing that raises on these arguments: it always
\* returns.
quantize_rhythm(times, tempo_bpm, grid, min_note_duration) ==
    IF Len(times) = 0 THEN [onsets |-> <<>>, durations |-> <<>>]
    ELSE
        LET raw == raw_events(times, tempo_bpm, grid)
        IN  collapse_short_notes(raw.onsets, raw.durations, min_note_duration)

\* A call with its arguments, nothing computed yet.
NewCall(times, tempo_bpm, grid, min_note_duration) ==
    [pc |-> "call", times |-> times, tempo_bpm |-> tempo_bpm, grid |-> grid,
     min_note_duration |-> min_note_duration, raised |-> FALSE,
     onsets |-> <<>>, durations |-> <<>>, snapped |-> <<>>, again |-> <<>>,
     raw |-> [onsets |-> <<>>, durations |-> <<>>]]

QuantInit ==
    /\ \E times \in TimeArrays, tempo_bpm \in Tempos, grid \in Grids,
          min_note_duration \in MinDurations :
        qz = NewCall(times, tempo_bpm, grid, min_note_duration)
    /\ jobs = <<>>
    /\ artifacts = <<>>
    /\ queue = {}
    /\ nextTask = 0
    /\ wpc = [w \in Workers |-> "idle"]
    /\ wtask = [w \in Workers |-> NoTask]
    /\ upc = [s \in Sessions |-> "idle"]
    /\ uparams = [s \in Sessions |-> None]
    /\ cancelSeen = [w \in Workers |-> FALSE]
    /\ run = NoCall
    /\ te = NoCall
    /\ nt = NoCall

quantFrame == <<jobs, artifacts, queue, nextTask, wpc, wtask, upc, uparams,
                cancelSeen, run, te, nt>>

\* onsets, durations = quantize_rhythm(times, tempo_bpm, grid, min_note_duration)
QuantizeRhythm ==
    /\ qz.pc = "call"
    /\ LET r == quantize_rhythm(qz.times, qz.tempo_bpm, qz.grid, qz.min_note_duration)
       IN  qz' = [qz EXCEPT !.pc = "returned", !.onsets = r.onsets,
                            !.durations = r.durations,
                            !.raw = IF Len(qz.times) = 0 THEN qz.raw
                                    ELSE raw_events(qz.times, qz.tempo_bpm, qz.grid)]
    /\ UNCHANGED quantFrame

\* snapped = quantize_beats(b, grid), the array taken as beat positions.
QuantizeBeats ==
    /\ qz.pc = "call"
    /\ qz' = [qz EXCEPT !.pc = "snapped", !.snapped = quantize_beats(qz.times, qz.grid)]
    /\ UNCHANGED quantFrame

\* again = quantize_beats(snapped, grid)
QuantizeBeatsAgain ==
    /\ qz.pc = "snapped"
    /\ qz' = [qz EXCEPT !.pc = "resnapped", !.again = quantize_beats(qz.snapped, qz.grid)]
    /\ UNCHANGED quantFrame

QuantNext ==
    \/ QuantizeRhythm
    \/ QuantizeBeats
    \/ QuantizeBeatsAgain

QuantSpec == QuantInit /\ [][QuantNext]_vars

\* The quantizer's configuration is valid.
ValidConfig == qz.tempo_bpm > 0 /\ qz.grid > 0 /\ qz.min_note_duration > 0

\* The array is a pitch contour: frames at a fixed hop, the first at time 0.
IsContour(times) ==
    /\ Len(times) > 0
    /\ times[1] = 0
    /\ \E hop \in 1..MaxTime : \A i \in 1..Len(times) : times[i] = (i - 1) * hop

\* The contour's duration: the time of its last frame, or with that frame's
\* own hop counted in.
ContourDurations(times) ==
    {times[Len(times)]} \cup
    (IF Len(times) > 1 THEN {times[Len(times)] + (times[2] - times[1])} ELSE {})

\* End of the last event.
Span(onsets, durations) ==
    IF Len(onsets) = 0 THEN 0 ELSE onsets[Len(onsets)] + durations[Len(onsets)]

\* ------------------------------------------------------------------ C16

\* C16: for a non-empty contour and a valid configuration the events
\* returned by quantize_rhythm start at beat 0, are sorted and contiguous
\* (each onset is the previous onset plus its duration), and end at the
\* contour's duration in beats rounded to the grid.
C16_EventsCoverContour ==
    (qz.pc = "returned" /\ IsContour(qz.times) /\ ValidConfig) =>
        /\ Len(qz.onsets) > 0
        /\ qz.onsets[1] = 0
        /\ \A i \in 2..Len(qz.onsets) :
                /\ qz.onsets[i - 1] <= qz.onsets[i]
                /\ qz.onsets[i] = qz.onsets[i - 1] + qz.durations[i - 1]
        /\ \E d \in ContourDurations(qz.times) :
                Span(qz.onsets, qz.durations) =
                    quantize_beats(times_to_beats(<<d>>, qz.tempo_bpm), qz.grid)[1]

\* ------------------------------------------------------------------ C17

\* C17: every event the quantizer returns lasts at least min_note_duration;
\* with a positive minimum no event of zero length is returned.
C17_NoShortEvents ==
    qz.pc = "returned" =>
        \A i \in 1..Len(qz.durations) :
            /\ qz.durations[i] >= qz.min_note_duration
            /\ (qz.min_note_duration > 0 => qz.durations[i] > 0)

\* A call on a contour that dropped a short event and kept a longer one.
C17_Witness ==
    /\ qz.pc = "returned"
    /\ ValidConfig
    /\ IsContour(qz.times)
    /\ qz.min_note_duration = 2
    /\ qz.grid = 1
    /\ Len(qz.onsets) > 0
    /\ Len(qz.onsets) < Len(qz.times)

\* ------------------------------------------------------------------ C18

\* C18: for a grid > 0, snapping already snapped beat positions to the same
\* grid returns them unchanged.
C18_SnapIdempotent ==
    (qz.pc = "resnapped" /\ qz.grid > 0) => qz.again = qz.snapped

\* Positions that the first snap moved (one of them on a tie, one negative)
\* and the second left alone.
C18_Witness ==
    /\ qz.pc = "resnapped"
    /\ qz.grid = 2
    /\ qz.times = <<0 - 1, 1, 3>>
    /\ qz.snapped # qz.times
    /\ qz.again = qz.snapped

\* ------------------------------------------------------------------ C19

\* C19: quantize_rhythm called on a non-empty array with tempo <= 0,
\* grid <= 0 or min_note_duration <= 0 signals an error and returns no
\* events.
C19_InvalidConfigFails ==
    (qz.pc = "returned" /\ Len(qz.times) > 0 /\ ~ValidConfig) =>
        /\ qz.raised
        /\ qz.onsets = <<>>

\* ------------------------------------------------------------------ estimate_tempo

\* start_bpm's default and the value returned on the early exits.
DefaultTempo == 120

\* The largest tempo the validation accepts.
MaxTempo == 300

\* A float: finite with its value, or nan, inf, -inf.
Float(v) == [kind |-> "finite", v |-> v]
NaN == [kind |-> "nan", v |-> 0]
PosInf == [kind |-> "inf", v |-> 0]
NegInf == [kind |-> "neginf", v |-> 0]

FiniteTempos == {0 - 120, 0 - 1, 0, 1, 60, 119, 120, 121, 299, 300, 301, 1000}
Floats == { Float(v) : v \in FiniteTempos } \cup {NaN, PosInf, NegInf}

\* What librosa.beat.beat_track does: it raises, or returns the tempo as a
\* scalar float or as an array of at most one float.
BackendResults ==
    {[shape |-> "raises", items |-> <<>>]}
    \cup { [shape |-> "scalar", items |-> <<x>>] : x \in Floats }
    \cup { [shape |-> "array", items |-> <<>>] }
    \cup { [shape |-> "array", items |-> <<x>>] : x \in Floats }

\* len(y) of the signal.
SignalLengths == {0, 1, 22050}

\* x <= 0 and x > 300 as floats compare: every comparison with nan is False.
float_le(x, n) ==
    CASE x.kind = "finite" -> x.v <= n
      [] x.kind = "neginf" -> TRUE
      [] OTHER -> FALSE

float_gt(x, n) ==
    CASE x.kind = "finite" -> x.v > n
      [] x.kind = "inf" -> TRUE
      [] OTHER -> FALSE

\* estimate_tempo(y, sr) with the default start_bpm.  An empty signal returns
\* 120.0; inside the try, beat_track raising, or the debug f-string
\* f"{tempo:.1f}" raising TypeError on an array, reaches the except and
\* returns 120.0; a scalar is replaced by start_bpm when tempo <= 0 or
\* tempo > 300, and float(tempo) is returned.
estimate_tempo(len_y, backend) ==
    IF len_y = 0 THEN Float(DefaultTempo)
    ELSE IF backend.shape = "raises" THEN Float(DefaultTempo)
    ELSE IF backend.shape = "array" THEN Float(DefaultTempo)
    ELSE
        LET tempo == backend.items[1]
        IN  IF float_le(tempo, 0) \/ float_gt(tempo, MaxTempo)
            THEN Float(DefaultTempo)
            ELSE tempo

TempoInit ==
    /\ \E len_y \in SignalLengths, backend \in BackendResults :
        te = [pc |-> "call", len_y |-> len_y, backend |-> backend, result |-> NaN]
    /\ jobs = <<>>
    /\ artifacts = <<>>
    /\ queue = {}
    /\ nextTask = 0
    /\ wpc = [w \in Workers |-> "idle"]
    /\ wtask = [w \in Workers |-> NoTask]
    /\ upc = [s \in Sessions |-> "idle"]
    /\ uparams = [s \in Sessions |-> None]
    /\ cancelSeen = [w \in Workers |-> FALSE]
    /\ run = NoCall
    /\ qz = NoCall
    /\ nt = NoCall

\* tempo = estimate_tempo(y, sr)
EstimateTempo ==
    /\ te.pc = "call"
    /\ te' = [te EXCEPT !.pc = "returned",
                        !.result = estimate_tempo(te.len_y, te.backend)]
    /\ UNCHANGED <<jobs, artifacts, queue, nextTask, wpc, wtask, upc, uparams,
                   cancelSeen, run, qz, nt>>

TempoNext == EstimateTempo

TempoSpec == TempoInit /\ [][TempoNext]_vars

\* ------------------------------------------------------------------ C20

\* The backend's answer is unusable: it raised, or its value is not finite,
\* not positive, or above 300.
BackendInvalid(backend) ==
    \/ backend.shape = "raises"
    \/ /\ backend.shape = "scalar"
       /\ \/ backend.items[1].kind # "finite"
          \/ backend.items[1].v <= 0
          \/ backend.items[1].v > MaxTempo

\* C20: the tempo estimate_tempo returns is a finite value in (0, 300], and
\* it is the 120 BPM default whenever the backend's answer is unusable.
C20_TempoInRange ==
    te.pc = "returned" =>
        /\ te.result.kind = "finite"
        /\ te.result.v > 0
        /\ te.result.v <= MaxTempo
        /\ (BackendInvalid(te.backend) => te.result = Float(DefaultTempo))

\* ------------------------------------------------------------------ C28

\* C28: whenever the job's status is done, its progress is 100 and its error
\* field is empty.
C28_DoneIsComplete ==
    (JobExists /\ Job.status = "done") =>
        /\ Job.progress = 100
        /\ Job.error = NoError

\* ------------------------------------------------------------------ C30

\* C30: a run that starts executes with the parameters stored in the job's
\* row at that moment.
C30_RunUsesStoredParams ==
    [][ \A w \in Workers :
            (wpc[w] = "idle" /\ wpc'[w] = "load") =>
                wtask'[w].params = Job.params_json ]_vars

\* ------------------------------------------------------------------ C29

\* A worker process that has something to do does it: it takes the next
\* message when it is free and carries the run it has started to its end.
WorkerStep(w) ==
    \/ TaskStart(w)
    \/ Preprocess(w)
    \/ EstimateF0(w)
    \/ Quantize(w)
    \/ BuildExport(w)
    \/ SynthRenderFinalize(w)
    \/ StageFails(w)
    \/ on_failure(w)

\* A call a page has begun returns, with either outcome of its publish.
CallStep(s) ==
    \/ SubmitPublish(s)
    \/ SubmitPublishFails(s)
    \/ CancelWrite(s)
    \/ RetryReset(s)
    \/ RetryPublish(s)
    \/ RetryPublishFails(s)
    \/ EditWrite(s)
    \/ Return(s)

\* The orchestration with fair workers and calls that return.  No page is
\* obliged to begin a call.
FairSpec ==
    /\ Spec
    /\ \A w \in Workers : WF_vars(WorkerStep(w))
    /\ \A s \in Sessions : WF_vars(CallStep(s))

\* C29: with fair workers, every job row created by submit_transcription_job
\* eventually has a terminal status (done, failed or cancelled).
C29_EventuallyTerminal ==
    JobExists ~> (JobExists /\ Job.status \in {"done", "failed", "cancelled"})

\* ------------------------------------------------------------------ C21
\* quantize_rhythm is handed the contour's time axis alone (celery_tasks.py
\* line 135): the frequencies and the voicing flags of the frames are not
\* among its arguments, so the time axis of any contour is also the time
\* axis of a contour with no voiced frame, and the events are the same.

\* C21: for a contour with no voiced frame the quantizer returns exactly one
\* event, starting at 0 and spanning the contour's duration, or no event when
\* that duration is zero; never an event of zero length and never several.
C21_SilentContourOneRest ==
    (qz.pc = "returned" /\ IsContour(qz.times) /\ ValidConfig) =>
        /\ Len(qz.onsets) <= 1
        /\ \A i \in 1..Len(qz.durations) : qz.durations[i] > 0
        /\ (qz.times[Len(qz.times)] = 0) => Len(qz.onsets) = 0
        /\ (Len(qz.onsets) = 1) =>
                /\ qz.onsets[1] = 0
                /\ \E d \in ContourDurations(qz.times) :
                        qz.durations[1] = times_to_beats(<<d>>, qz.tempo_bpm)[1]

\* ------------------------------------------------------------------ C24

\* C24: a beat position exactly halfway between two grid lines
\* (beat / grid = k + 0.5, k >= 0) is snapped to the upper one, (k + 1) * grid.
C24_TiesAwayFromZero ==
    (qz.pc = "snapped" /\ qz.grid > 0) =>
        \A i \in 1..Len(qz.times) :
            \A k \in 0..MaxTime :
                (2 * qz.times[i] = (2 * k + 1) * qz.grid) =>
                    qz.snapped[i] = (k + 1) * qz.grid

\* ------------------------------------------------------------------ C25

\* C25: before the short notes are collapsed the quantizer has exactly one
\* raw event per distinct snapped beat value, in increasing order, each
\* lasting up to the next distinct snapped onset and the last one exactly
\* one grid unit; no raw event has zero duration.
C25_RawEventsDistinct ==
    (qz.pc = "returned" /\ IsContour(qz.times) /\ ValidConfig) =>
        LET snapped == quantize_beats(times_to_beats(qz.times, qz.tempo_bpm), qz.grid)
            n == Len(qz.raw.onsets)
        IN  /\ {qz.raw.onsets[i] : i \in 1..n} = {snapped[i] : i \in 1..Len(snapped)}
            /\ \A i \in 1..(n - 1) : qz.raw.onsets[i] < qz.raw.onsets[i + 1]
            /\ \A i \in 1..(n - 1) :
                    qz.raw.durations[i] = qz.raw.onsets[i + 1] - qz.raw.onsets[i]
            /\ qz.raw.durations[n] = qz.grid
            /\ \A i \in 1..n : qz.raw.durations[i] > 0

\* ------------------------------------------------------------------ insert_rests
\* One call of insert_rests, in the units of the quantizer above.

OnsetValues == 0..MaxTime
DurationValues == 0..2
TotalDurations == 0..(MaxTime + 1)

\* The events handed to insert_rests: two arrays of one length.
EventArrays ==
    UNION { [onsets : [1..n -> OnsetValues], durations : [1..n -> DurationValues]] :
            n \in 0..MaxLen }

\* np.argsort(onsets): the orders that sort the array; which one of them is
\* returned when onsets repeat is the sort's affair.
np_argsort(onsets) ==
    { p \in [1..Len(onsets) -> 1..Len(onsets)] :
        /\ \A i, j \in 1..Len(onsets) : i # j => p[i] # p[j]
        /\ \A i, j \in 1..Len(onsets) : i < j => onsets[p[i]] <= onsets[p[j]] }

\* The loop over the sorted events from the i-th on: a rest when the event
\* starts after current_time, then the event itself.
RECURSIVE insert_rests_loop(_, _, _, _, _)
insert_rests_loop(sorted_onsets, sorted_durations, i, current_time, all) ==
    IF i > Len(sorted_onsets) THEN [current_time |-> current_time, all |-> all]
    ELSE
        LET onset == sorted_onsets[i]
            duration == sorted_durations[i]
            rested ==
                IF onset > current_time
                THEN [onsets |-> Append(all.onsets, current_time),
                      durations |-> Append(all.durations, onset - current_time)]
                ELSE all
        IN  insert_rests_loop(sorted_onsets, sorted_durations, i + 1, onset + duration,
                              [onsets |-> Append(rested.onsets, onset),
                               durations |-> Append(rested.durations, duration)])

\* insert_rests with the order sorted_indices that np.argsort returned.
insert_rests(onsets, durations, total_duration, sorted_indices) ==
    IF Len(onsets) = 0
    THEN [onsets |-> <<0>>, durations |-> <<total_duration>>]
    ELSE
        LET sorted_onsets == [i \in 1..Len(onsets) |-> onsets[sorted_indices[i]]]
            sorted_durations == [i \in 1..Len(onsets) |-> durations[sorted_indices[i]]]
            r == insert_rests_loop(sorted_onsets, sorted_durations, 1, 0,
                                   [onsets |-> <<>>, durations |-> <<>>])
        IN  IF r.current_time < total_duration
            THEN [onsets |-> Append(r.all.onsets, r.current_time),
                  durations |-> Append(r.all.durations, total_duration - r.current_time)]
            ELSE r.all

RestInit ==
    /\ \E ev \in EventArrays, total_duration \in TotalDurations :
        qz = [pc |-> "call", onsets |-> ev.onsets, durations |-> ev.durations,
              total_duration |-> total_duration,
              all_onsets |-> <<>>, all_durations |-> <<>>]
    /\ jobs = <<>>
    /\ artifacts = <<>>
    /\ queue = {}
    /\ nextTask = 0
    /\ wpc = [w \in Workers |-> "idle"]
    /\ wtask = [w \in Workers |-> NoTask]
    /\ upc = [s \in Sessions |-> "idle"]
    /\ uparams = [s \in Sessions |-> None]
    /\ cancelSeen = [w \in Workers |-> FALSE]
    /\ run = NoCall
    /\ te = NoCall
    /\ nt = NoCall

\* all_onsets, all_durations = insert_rests(onsets, durations, total_duration)
InsertRests ==
    /\ qz.pc = "call"
    /\ \E sorted_indices \in np_argsort(qz.onsets) :
        LET r == insert_rests(qz.onsets, qz.durations, qz.total_duration, sorted_indices)
        IN  qz' = [qz EXCEPT !.pc = "returned", !.all_onsets = r.onsets,
                             !.all_durations = r.durations]
    /\ UNCHANGED quantFrame

RestNext == InsertRests

RestSpec == RestInit /\ [][RestNext]_vars

\* The events are note events (they last) that do not overlap and end at or
\* before total_duration.
EventsFit ==
    /\ \A i \in 1..Len(qz.onsets) :
        /\ qz.durations[i] > 0
        /\ qz.onsets[i] + qz.durations[i] <= qz.total_duration
    /\ \A i, j \in 1..Len(qz.onsets) :
        (i # j /\ qz.onsets[i] <= qz.onsets[j]) =>
            qz.onsets[i] + qz.durations[i] <= qz.onsets[j]

\* The positions kept form a copy of the input events: each input event is
\* at one of them, unchanged.
IsCopyOfInput(kept) ==
    \E f \in [1..Len(qz.onsets) -> kept] :
        /\ \A i, j \in 1..Len(qz.onsets) : i # j => f[i] # f[j]
        /\ \A k \in kept : \E i \in 1..Len(qz.onsets) : f[i] = k
        /\ \A i \in 1..Len(qz.onsets) :
            /\ qz.all_onsets[f[i]] = qz.onsets[i]
            /\ qz.all_durations[f[i]] = qz.durations[i]

\* ------------------------------------------------------------------ C26

\* C26: for events that do not overlap and end at or before total_duration,
\* the output of insert_rests is sorted, starts at onset 0, is contiguous,
\* ends exactly at total_duration, contains every input event unchanged, and
\* every other event in it spans a gap: it has a length and lies between the
\* events (or the ends) next to it.
C26_RestsFillGaps ==
    (qz.pc = "returned" /\ EventsFit) =>
        LET n == Len(qz.all_onsets)
        IN  /\ n = 0 => qz.total_duration = 0
            /\ n > 0 => /\ qz.all_onsets[1] = 0
                        /\ qz.all_onsets[n] + qz.all_durations[n] = qz.total_duration
            /\ \A k \in 2..n :
                /\ qz.all_onsets[k - 1] <= qz.all_onsets[k]
                /\ qz.all_onsets[k] = qz.all_onsets[k - 1] + qz.all_durations[k - 1]
            /\ \E kept \in SUBSET (1..n) :
                /\ IsCopyOfInput(kept)
                /\ \A k \in (1..n) \ kept : qz.all_durations[k] > 0

\* ------------------------------------------------------------------ f0_to_midi
\* Frequencies are whole numbers of Hz; MIDI values before the conversion to
\* int are counted in hundredths of a semitone, rounded down.

\* The finite float 1e-6, smaller than every positive frequency here.
Tiny == [kind |-> "tiny", v |-> 0]

FiniteF0 == {0 - 100, 0, 8, 9, 440, 12543, 12544, 20000}
F0Values == { Float(v) : v \in FiniteF0 } \cup {NaN, PosInf, NegInf}
F0Lists == UNION { [1..n -> F0Values] : n \in 0..MaxLen }

\* np.maximum(1e-6, x): the larger one, nan when x is nan.
np_maximum_tiny(x) ==
    CASE x.kind = "nan" -> NaN
      [] x.kind = "inf" -> PosInf
      [] x.kind = "neginf" -> Tiny
      [] x.kind = "finite" -> IF x.v <= 0 THEN Tiny ELSE x

\* librosa.hz_to_midi(x) = 12 * (log2(x) - log2(440)) + 69 at the values
\* above, in hundredths of a semitone.
hz_to_midi(x) ==
    CASE x.kind = "nan" -> NaN
      [] x.kind = "inf" -> PosInf
      [] x.kind = "tiny" -> Float(0 - 27556)
      [] x.kind = "finite" /\ x.v = 8 -> Float(0 - 38)
      [] x.kind = "finite" /\ x.v = 9 -> Float(166)
      [] x.kind = "finite" /\ x.v = 440 -> Float(6900)
      [] x.kind = "finite" /\ x.v = 12543 -> Float(12699)
      [] x.kind = "finite" /\ x.v = 12544 -> Float(12700)
      [] x.kind = "finite" /\ x.v = 20000 -> Float(13507)

\* np.where(np.isfinite(midi), midi, 0.0)
where_isfinite(midi) == IF midi.kind = "finite" THEN midi ELSE Float(0)

\* np.clip(midi, 0, 127) of a finite value, in hundredths.
np_clip(midi) ==
    IF midi.v < 0 THEN Float(0)
    ELSE IF midi.v > 12700 THEN Float(12700)
    ELSE midi

\* astype(int) of a finite value in hundredths: towards zero.
astype_int(midi) ==
    IF midi.v >= 0 THEN midi.v \div 100 ELSE 0 - ((0 - midi.v) \div 100)

\* Mutant of f0_to_midi: the values are not clipped.
f0_to_midi_NoClip(f0_hz, librosa_ok) ==
    IF Len(f0_hz) = 0 THEN <<>>
    ELSE IF ~librosa_ok THEN [i \in 1..Len(f0_hz) |-> 0]
    ELSE [i \in 1..Len(f0_hz) |->
            astype_int(where_isfinite(hz_to_midi(np_maximum_tiny(f0_hz[i]))))]

\* f0_to_midi(f0_hz); when the import or a call in the try raises
\* (librosa_ok is false) the except returns [0] * len(f0_hz).
f0_to_midi(f0_hz, librosa_ok) ==
    IF Len(f0_hz) = 0 THEN <<>>
    ELSE IF ~librosa_ok THEN [i \in 1..Len(f0_hz) |-> 0]
    ELSE [i \in 1..Len(f0_hz) |->
            astype_int(np_clip(where_isfinite(hz_to_midi(np_maximum_tiny(f0_hz[i])))))]

F0Init ==
    /\ \E f0_hz \in F0Lists :
        nt = [pc |-> "call", f0_hz |-> f0_hz, librosa_ok |-> TRUE, midi |-> <<>>]
    /\ jobs = <<>>
    /\ artifacts = <<>>
    /\ queue = {}
    /\ nextTask = 0
    /\ wpc = [w \in Workers |-> "idle"]
    /\ wtask = [w \in Workers |-> NoTask]
    /\ upc = [s \in Sessions |-> "idle"]
    /\ uparams = [s \in Sessions |-> None]
    /\ cancelSeen = [w \in Workers |-> FALSE]
    /\ run = NoCall
    /\ qz = NoCall
    /\ te = NoCall

noteFrame == <<jobs, artifacts, queue, nextTask, wpc, wtask, upc, uparams,
               cancelSeen, run, qz, te>>

\* midi = f0_to_midi(f0_hz)
F0ToMidi ==
    /\ nt.pc = "call"
    /\ \E librosa_ok \in BOOLEAN :
        nt' = [nt EXCEPT !.pc = "returned", !.librosa_ok = librosa_ok,
                         !.midi = f0_to_midi(nt.f0_hz, librosa_ok)]
    /\ UNCHANGED noteFrame

F0Next == F0ToMidi

F0Spec == F0Init /\ [][F0Next]_vars

\* ------------------------------------------------------------------ C23

\* C23: f0_to_midi returns one pitch per input frequency, every pitch lies
\* in 0..127, and a frequency of 0, NaN or infinity gives pitch 0.
C23_MidiInRange ==
    nt.pc = "returned" =>
        /\ Len(nt.midi) = Len(nt.f0_hz)
        /\ \A i \in 1..Len(nt.midi) :
            /\ nt.midi[i] \in 0..127
            /\ nt.f0_hz[i] \in {Float(0), NaN, PosInf, NegInf} => nt.midi[i] = 0

\* A conversion by librosa of a list with a silent frame, a frame that is
\* not a number and a sounding one.
C23_Witness ==
    /\ nt.pc = "returned"
    /\ nt.librosa_ok
    /\ nt.f0_hz = <<Float(0), NaN, Float(440)>>
    /\ nt.midi = <<0, 0, 69>>

\* ------------------------------------------------------------------ synthesis.py
\* An argument is a Python list or a numpy array, [kind, v]; onsets and
\* durations are whole beats.

List(v) == [kind |-> "list", v |-> v]
Array(v) == [kind |-> "ndarray", v |-> v]

\* What bool(np.array([])) does: False with a DeprecationWarning, or
\* ValueError in the numpy releases that dropped it.
EmptyArrayTruth == {"false", "raises"}

\* bool(x): a list is true when it has an element; an array of one element
\* is true when the element is not 0, and an array of several elements
\* raises ValueError (its truth value is ambiguous).
truth(x, empty_array) ==
    IF x.kind = "list" THEN (IF Len(x.v) > 0 THEN "true" ELSE "false")
    ELSE IF Len(x.v) = 0 THEN empty_array
    ELSE IF Len(x.v) = 1 THEN (IF x.v[1] # 0 THEN "true" ELSE "false")
    ELSE "raises"

\* if not a or not b or not c, left to right: "raises", "empty" (the branch
\* is taken) or "go".
not_any(a, b, c, empty_array) ==
    LET test(x, rest) == CASE truth(x, empty_array) = "raises" -> "raises"
                           [] truth(x, empty_array) = "false" -> "empty"
                           [] OTHER -> rest
    IN  test(a, test(b, test(c, "go")))

\* max(x) of a non-empty sequence.
max(x) == CHOOSE m \in {x[i] : i \in 1..Len(x)} : \A i \in 1..Len(x) : x[i] <= m

\* int(beats * sec_per_beat * sr) for beats >= 0, with sec_per_beat = 60.0 / qpm.
to_samples(beats, qpm, sr) == (beats * 60 * sr) \div qpm

\* min(a, b) and max(a, b) of two numbers.
min2(a, b) == IF a < b THEN a ELSE b
max2(a, b) == IF a > b THEN a ELSE b

\* synth_sine: raised is an exception leaving the function (the tests before
\* the try), y the buffer returned, each sample counted by the number of
\* tones added to it.  Inside the try a qpm of 0 divides by zero and a
\* buffer of no sample has no maximum: the except returns the empty array.
synth_sine(midi_pitches, onset_beats, dur_beats, qpm, sr, empty_array) ==
    LET guard == not_any(midi_pitches, onset_beats, dur_beats, empty_array)
        mp == midi_pitches.v
        ob == onset_beats.v
        db == dur_beats.v
    IN  IF guard = "raises" THEN [raised |-> TRUE, y |-> <<>>]
        ELSE IF guard = "empty" THEN [raised |-> FALSE, y |-> <<>>]
        ELSE IF Len(mp) # Len(ob) \/ Len(mp) # Len(db) THEN [raised |-> FALSE, y |-> <<>>]
        ELSE IF qpm = 0 THEN [raised |-> FALSE, y |-> <<>>]
        ELSE
            LET total_samples == to_samples(max(ob) + max(db), qpm, sr)
                start_sample(i) == max2(0, min2(to_samples(ob[i], qpm, sr), total_samples))
                end_sample(i) == max2(start_sample(i),
                                      min2(to_samples(ob[i] + db[i], qpm, sr), total_samples))
                tones(k) == { i \in 1..Len(mp) :
                                /\ mp[i] > 0
                                /\ start_sample(i) < k
                                /\ k <= end_sample(i) }
            IN  [raised |-> FALSE,
                 y |-> [k \in 1..total_samples |-> Cardinality(tones(k))]]

\* The events handed to the synthesizer and the tempi; sr is 2 samples a
\* second.
SynthPitches == {0, 69}
SynthTempos == {0, 60, 120}
SampleRates == {2}
SynthEvents ==
    UNION { [midi_pitches : [1..n -> SynthPitches], onset_beats : [1..n -> OnsetValues],
             dur_beats : [1..n -> DurationValues]] : n \in 0..MaxLen }

\* The sequence without its last element.
ButLast(x) == IF Len(x) = 0 THEN x ELSE SubSeq(x, 1, Len(x) - 1)

SynthInit ==
    /\ \E ev \in SynthEvents, qpm \in SynthTempos, sr \in SampleRates, short \in BOOLEAN :
        nt = [pc |-> "call",
              midi_pitches |-> List(ev.midi_pitches),
              onset_beats |-> List(ev.onset_beats),
              dur_beats |-> List(IF short THEN ButLast(ev.dur_beats) ELSE ev.dur_beats),
              qpm |-> qpm, sr |-> sr, raised |-> FALSE, y |-> <<>>]
    /\ jobs = <<>>
    /\ artifacts = <<>>
    /\ queue = {}
    /\ nextTask = 0
    /\ wpc = [w \in Workers |-> "idle"]
    /\ wtask = [w \in Workers |-> NoTask]
    /\ upc = [s \in Sessions |-> "idle"]
    /\ uparams = [s \in Sessions |-> None]
    /\ cancelSeen = [w \in Workers |-> FALSE]
    /\ run = NoCall
    /\ qz = NoCall
    /\ te = NoCall

\* y = synth_sine(midi_pitches, onset_beats, dur_beats, qpm, sr)
SynthSine ==
    /\ nt.pc = "call"
    /\ \E empty_array \in EmptyArrayTruth :
        LET r == synth_sine(nt.midi_pitches, nt.onset_beats, nt.dur_beats,
                            nt.qpm, nt.sr, empty_array)
        IN  nt' = [nt EXCEPT !.pc = "returned", !.raised = r.raised, !.y = r.y]
    /\ UNCHANGED noteFrame

SynthNext == SynthSine

SynthSpec == SynthInit /\ [][SynthNext]_vars

\* ------------------------------------------------------------------ C27

\* C27: for a non-empty list of events the buffer has as many samples as the
\* largest onset + duration among the events makes, and only the events
\* with a pitch > 0 add to it.
C27_BufferSpansEvents ==
    (/\ nt.pc = "returned"
     /\ Len(nt.midi_pitches.v) > 0
     /\ Len(nt.onset_beats.v) = Len(nt.midi_pitches.v)
     /\ Len(nt.dur_beats.v) = Len(nt.midi_pitches.v)
     /\ \A i \in 1..Len(nt.dur_beats.v) : nt.dur_beats.v[i] > 0
     /\ nt.qpm > 0) =>
        LET n == Len(nt.midi_pitches.v)
            ends == [i \in 1..n |-> nt.onset_beats.v[i] + nt.dur_beats.v[i]]
            sounding(k) == { i \in 1..n :
                                /\ nt.midi_pitches.v[i] > 0
                                /\ to_samples(nt.onset_beats.v[i], nt.qpm, nt.sr) < k
                                /\ k <= to_samples(ends[i], nt.qpm, nt.sr) }
        IN  /\ ~nt.raised
            /\ Len(nt.y) = to_samples(max(ends), nt.qpm, nt.sr)
            /\ \A k \in 1..Len(nt.y) : nt.y[k] = Cardinality(sounding(k))

\* ------------------------------------------------------------------ build_score

\* The notes and rests of the part: a rest for a pitch <= 0 or a duration
\* <= 0, a note otherwise.
score_events(mp, db) ==
    [i \in 1..Len(mp) |->
        IF mp[i] <= 0 \/ db[i] <= 0
        THEN [kind |-> "rest", duration |-> db[i]]
        ELSE [kind |-> "note", pitch |-> mp[i], duration |-> db[i]]]

\* build_score: raised is an exception leaving the function (the test of
\* line 60 stands before the try), score the events of the Score returned;
\* stream.Score() with nothing in it is the empty sequence.  Arguments with
\* nothing in them and arguments of different lengths are logged and answered
\* with stream.Score().
build_score(midi_pitches, onset_beats, dur_beats, empty_array) ==
    LET guard == not_any(midi_pitches, onset_beats, dur_beats, empty_array)
    IN  IF guard = "raises" THEN [raised |-> TRUE, score |-> <<>>]
        ELSE IF guard = "empty" THEN [raised |-> FALSE, score |-> <<>>]
        ELSE IF \/ Len(midi_pitches.v) # Len(onset_beats.v)
                \/ Len(midi_pitches.v) # Len(dur_beats.v)
             THEN [raised |-> FALSE, score |-> <<>>]
        ELSE [raised |-> FALSE, score |-> score_events(midi_pitches.v, dur_beats.v)]

\* ------------------------------------------------------------------ one run of transcribe_job
\* The same task body as above, followed statement by statement for a single
\* execution with no other process writing the job: the local variables of
\* the task (src_path, the exception being handled, the renderer's outputs)
\* are kept in run, and every call the body makes either returns or raises.

\* The values of params["separation"]; "other" is a method separate_sources
\* does not know.
SeparationMethods == {"none", "demucs", "spleeter", "other"}
RunParams == { [separation |-> m] : m \in SeparationMethods }

\* Path of the vocal stem a successful separation returns.
VocalsPath == "vocals.wav"

\* The text of an exception, str(e).
ExcMessages == {"message"}

\* No exception is being handled.
NoExc == [stage |-> None, message |-> None]

\* error_msg of the except block: "Transcription failed: " + str(e) + "\n" +
\* traceback.format_exc(); the traceback's frame in transcribe_job shows the
\* call that raised.
TranscriptionFailedMsg(exc) ==
    <<"Transcription failed", exc.message, "Traceback", exc.stage>>

\* error_msg of BaseTask.on_failure: "Task failed: " + str(exc).
TaskFailedMsg(exc) == <<"Task failed", exc.message>>

\* build_score has returned nothing yet.
NoScore == [built |-> FALSE, events |-> <<>>]

\* The task's local variables when the worker calls it with a message.
NewRun(job_id, audio_path, params) ==
    [pc |-> "begin", job_id |-> job_id, audio_path |-> audio_path,
     params |-> params, src_path |-> None, sep |-> None, loaded |-> None,
     exc |-> NoExc, renderer |-> None, res |-> <<>>, outputs |-> <<>>,
     midi_pitches |-> List(<<>>), onsets_beats |-> Array(<<>>),
     dur_beats |-> Array(<<>>), score |-> NoScore]

\* A job just submitted with some parameters, its message handed to a worker.
RunInit ==
    /\ \E params \in RunParams :
        /\ jobs = create_job(params)
        /\ run = NewRun(JobId, UploadPath, params)
    /\ artifacts = <<>>
    /\ queue = {}
    /\ nextTask = 1
    /\ wpc = [w \in Workers |-> "idle"]
    /\ wtask = [w \in Workers |-> NoTask]
    /\ upc = [s \in Sessions |-> "idle"]
    /\ uparams = [s \in Sessions |-> None]
    /\ cancelSeen = [w \in Workers |-> FALSE]
    /\ qz = NoCall
    /\ te = NoCall
    /\ nt = NoCall

\* What a step of the run leaves alone besides jobs, artifacts and run.
runFrame == <<queue, nextTask, wpc, wtask, upc, uparams, cancelSeen, qz, te, nt>>

\* A call at position `at` raises `exc`: control goes to the except block.
raise(at, stage) ==
    /\ run.pc = at
    /\ \E m \in ExcMessages :
        run' = [run EXCEPT !.pc = "except", !.exc = [stage |-> stage, message |-> m]]
    /\ UNCHANGED <<jobs, artifacts, runFrame>>

\* try: update_job_status(job_id, status="running", progress=5).
TryBegin ==
    /\ run.pc = "begin"
    /\ jobs' = update_job_status(run.job_id, [status |-> "running", progress |-> 5])
    /\ run' = [run EXCEPT !.pc = "validate"]
    /\ UNCHANGED <<artifacts, runFrame>>

\* validate_audio(audio_path, ...) returns; src_path = audio_path.
ValidateAudio ==
    /\ run.pc = "validate"
    /\ run' = [run EXCEPT !.pc = "separate", !.src_path = run.audio_path]
    /\ UNCHANGED <<jobs, artifacts, runFrame>>

\* validate_audio raises (file missing, extension, size, duration).
ValidateAudioRaises == raise("validate", "validate_audio")

\* params.get("separation", "none") == "none": the block is skipped.
SkipSeparation ==
    /\ run.pc = "separate"
    /\ run.params.separation = "none"
    /\ run' = [run EXCEPT !.pc = "load", !.sep = "skipped"]
    /\ UNCHANGED <<jobs, artifacts, runFrame>>

\* src_path = separate_sources(audio_path, sep_dir, method) returns the stem.
SeparateSources ==
    /\ run.pc = "separate"
    /\ run.params.separation \in {"demucs", "spleeter"}
    /\ run' = [run EXCEPT !.pc = "load", !.sep = "done", !.src_path = VocalsPath]
    /\ UNCHANGED <<jobs, artifacts, runFrame>>

\* Mutant of SeparateSourcesRaises: the exception is not caught by an inner
\* except and reaches the except block of the task.
SeparateSourcesRaises_Uncaught ==
    /\ run.pc = "separate"
    /\ run.params.separation # "none"
    /\ \E m \in ExcMessages :
        run' = [run EXCEPT !.pc = "except", !.sep = "failed",
                           !.exc = [stage |-> "separate_sources", message |-> m]]
    /\ UNCHANGED <<jobs, artifacts, runFrame>>

\* separate_sources raises (the tool fails, the stem is missing, the method
\* is unknown): the inner except logs a warning and src_path keeps its value.
SeparateSourcesRaises ==
    /\ run.pc = "separate"
    /\ run.params.separation # "none"
    /\ run' = [run EXCEPT !.pc = "load", !.sep = "failed"]
    /\ UNCHANGED <<jobs, artifacts, runFrame>>

\* load_audio_to_mono(src_path, ...), apply_preprocessing_pipeline, then
\* update_job_status(job_id, progress=25).
LoadPreprocess ==
    /\ run.pc = "load"
    /\ jobs' = update_job_status(run.job_id, [progress |-> 25])
    /\ run' = [run EXCEPT !.pc = "f0", !.loaded = run.src_path]
    /\ UNCHANGED <<artifacts, runFrame>>

\* estimate_f0, then update_job_status(job_id, progress=45).
PitchEstimation ==
    /\ run.pc = "f0"
    /\ jobs' = update_job_status(run.job_id, [progress |-> 45])
    /\ run' = [run EXCEPT !.pc = "quantize"]
    /\ UNCHANGED <<artifacts, runFrame>>

\* The contours estimate_f0 may have returned: the time axis t and one
\* frequency per frame, 0 for a frame without voice.
Contours ==
    UNION { [t : {t \in [1..n -> TimeValues] : n = 0 \/ IsContour(t)},
             f0_hz : [1..n -> {Float(0), Float(440)}]] : n \in 0..MaxLen }

\* The grids and minimum durations the params give (tempo_qpm is 60).
RunGrids == {1, 2}
RunMinDurations == {1, 2}

\* onsets_beats, dur_beats = quantize_rhythm(t, qpm, grid, min_note_duration),
\* two arrays; midi_pitches = f0_to_midi(f0_hz.tolist()), a list with one
\* pitch per frame; key; update_job_status(progress=65).
Quantization ==
    /\ run.pc = "quantize"
    /\ jobs' = update_job_status(run.job_id, [progress |-> 65])
    /\ \E c \in Contours, grid \in RunGrids, min_note_duration \in RunMinDurations :
        LET r == quantize_rhythm(c.t, 60, grid, min_note_duration)
        IN  run' = [run EXCEPT !.pc = "build",
                               !.midi_pitches = List(f0_to_midi(c.f0_hz, TRUE)),
                               !.onsets_beats = Array(r.onsets),
                               !.dur_beats = Array(r.durations)]
    /\ UNCHANGED <<artifacts, runFrame>>

\* score = build_score(midi_pitches, onsets_beats, dur_beats, ...) returns;
\* export_musicxml(score, path), add_artifact(job_id, "musicxml", path),
\* update_job_status(job_id, progress=80).
NotationAssembly ==
    /\ run.pc = "build"
    /\ \E empty_array \in EmptyArrayTruth :
        LET r == build_score(run.midi_pitches, run.onsets_beats, run.dur_beats,
                             empty_array)
        IN  /\ ~r.raised
            /\ run' = [run EXCEPT !.pc = "synth",
                                   !.score = [built |-> TRUE, events |-> r.score]]
    /\ artifacts' = add_artifact(artifacts, run.job_id, "musicxml", TaskUuid(1))
    /\ jobs' = update_job_status(run.job_id, [progress |-> 80])
    /\ UNCHANGED runFrame

\* synth_audio, sf.write, add_artifact(job_id, "audio_preview", path).
PreviewSynthesis ==
    /\ run.pc = "synth"
    /\ artifacts' = add_artifact(artifacts, run.job_id, "audio_preview", TaskUuid(1))
    /\ run' = [run EXCEPT !.pc = "render"]
    /\ UNCHANGED <<jobs, runFrame>>

\* The stage a position of the run belongs to.
StageAt(at) ==
    CASE at = "load" -> "preprocessing"
      [] at = "f0" -> "estimate_f0"
      [] at = "quantize" -> "quantize_rhythm"
      [] at = "build" -> "build_score"
      [] at = "synth" -> "synth_audio"

\* A call of one of these stages raises.
StageRaises ==
    \E at \in {"load", "f0", "quantize", "build", "synth"} : raise(at, StageAt(at))

\* outputs = render_to_pdf_png(...) with the configured renderer, whatever
\* each of its commands does; then add_artifact for every output.
RenderRegister ==
    /\ run.pc = "render"
    /\ \E r \in Renderers, res \in [1..RenderCommands -> CmdOutcomes] :
        LET outputs == render_to_pdf_png(r, res) IN
        /\ run' = [run EXCEPT !.pc = "finalize", !.renderer = r, !.res = res,
                              !.outputs = outputs]
        /\ artifacts' = register_outputs(artifacts, run.job_id, outputs, TaskUuid(1))
    /\ UNCHANGED <<jobs, runFrame>>

\* update_job_status(job_id, status="done", progress=100, finished_at=...);
\* the task returns its result.
Finalize ==
    /\ run.pc = "finalize"
    /\ jobs' = update_job_status(run.job_id, [status |-> "done", progress |-> 100])
    /\ run' = [run EXCEPT !.pc = "returned"]
    /\ UNCHANGED <<artifacts, runFrame>>

\* except Exception as e: update_job_status(job_id, status="failed",
\* error=error_msg); raise.
ExceptBlock ==
    /\ run.pc = "except"
    /\ jobs' = update_job_status(run.job_id,
                   [status |-> "failed", error |-> TranscriptionFailedMsg(run.exc)])
    /\ run' = [run EXCEPT !.pc = "on_failure"]
    /\ UNCHANGED <<artifacts, runFrame>>

\* BaseTask.on_failure(exc, ...): update_job_status(job_id, status="failed",
\* error=error_msg).
OnFailure ==
    /\ run.pc = "on_failure"
    /\ jobs' = update_job_status(run.job_id,
                   [status |-> "failed", error |-> TaskFailedMsg(run.exc)])
    /\ run' = [run EXCEPT !.pc = "raised"]
    /\ UNCHANGED <<artifacts, runFrame>>

RunNext ==
    \/ TryBegin
    \/ ValidateAudio
    \/ ValidateAudioRaises
    \/ SkipSeparation
    \/ SeparateSources
    \/ SeparateSourcesRaises
    \/ LoadPreprocess
    \/ PitchEstimation
    \/ Quantization
    \/ NotationAssembly
    \/ PreviewSynthesis
    \/ StageRaises
    \/ RenderRegister
    \/ Finalize
    \/ ExceptBlock
    \/ OnFailure

RunSpec == RunInit /\ [][RunNext]_vars

\* The job's rows of one kind.
RowsOfKind(kind) == get_artifact_by_kind(JobId, kind)

\* The error text contains the text x.
Names(error, x) == \E i \in DOMAIN error : error[i] = x

\* ------------------------------------------------------------------ C11

\* Every call the renderer made failed (timed out, exited non-zero or its
\* binary was missing): each MuseScore command failed at its first call, the
\* pdf; verovio failed at its first call, the png; an unknown renderer makes
\* no call.
NoCallSucceeds(renderer, res) ==
    CASE renderer = "mscore" -> \A i \in DOMAIN res : res[i] = "pdf_fails"
      [] renderer = "verovio" -> res[1] = "png_fails"
      [] OTHER -> TRUE

\* C11: when every render call fails, render_to_pdf_png returns an empty
\* list, and the run, its other stages having succeeded, ends with status
\* done, the notation file registered and no pdf or png artifact.
C11_RenderFailureNotFatal ==
    (run.pc \in {"finalize", "returned"} /\ NoCallSucceeds(run.renderer, run.res)) =>
        /\ run.outputs = <<>>
        /\ run.exc = NoExc
        /\ RowsOfKind("musicxml") # {}
        /\ RowsOfKind("pdf") = {} /\ RowsOfKind("png") = {}
        /\ (run.pc = "returned" => Job.status = "done" /\ Job.error = NoError)

\* A finished run whose three MuseScore commands all failed.
C11_Witness ==
    /\ run.pc = "returned"
    /\ run.renderer = "mscore"
    /\ run.res = [i \in 1..RenderCommands |-> "pdf_fails"]
    /\ Job.status = "done"

\* ------------------------------------------------------------------ C12

\* The stages the claim names: preprocessing, pitch estimation, quantization
\* and notation assembly.
NamedFatalStages == {"preprocessing", "estimate_f0", "quantize_rhythm", "build_score"}

C13_SeparationFailureNotFatal ==
    [][ /\ (run.pc = "separate" /\ run'.sep = "failed") =>
                /\ run'.pc = "load"
                /\ run'.exc = NoExc
                /\ run'.src_path = run.audio_path
                /\ jobs' = jobs
        /\ (run.sep = "failed" /\ run.pc = "load" /\ run'.pc = "f0") =>
                run'.loaded = run.audio_path ]_vars

\* A run whose separation failed and which still finished done.
C13_Witness ==
    /\ run.sep = "failed"
    /\ run.params.separation = "demucs"
    /\ run.loaded = UploadPath
    /\ run.pc = "returned"
    /\ Job.status = "done"

\* ------------------------------------------------------------------ C14

\* C14: validate_audio rejecting the input changes no job's status: from the
\* moment it raises, the status stays what it was.
C14_ValidationNeverFailsJob ==
    [][ run'.exc.stage = "validate_audio" => Job'.status = Job.status ]_vars

\* ------------------------------------------------------------------ C22

\* The pitch, onset and duration sequences handed to build_score differ in
\* length.
Mismatched ==
    \/ Len(run.midi_pitches.v) # Len(run.onsets_beats.v)
    \/ Len(run.midi_pitches.v) # Len(run.dur_beats.v)

\* C22: when the sequences passed to build_score differ in length, assembly
\* returns no score, no score is exported and registered, and the job does
\* not reach done: once the run is over the job is failed.
C22_MismatchIsFatal ==
    Mismatched =>
        /\ ~run.score.built
        /\ RowsOfKind("musicxml") = {}
        /\ Job.status # "done"
        /\ run.pc \in {"returned", "raised"} => Job.status = "failed"

====
